---- MODULE Spec2Model ----
(***************************************************************************)
(* A block storage engine: a backing image cut into fixed-size blocks      *)
(* (VirtualDisk), a usage bitmap held in block 0, an inode table           *)
(* serialized into block 1, and the FileSystem engine that creates, reads, *)
(* writes and deletes files on top of them.                                *)
(*                                                                         *)
(* The image is held in three variables: `bitmap` is the content of block  *)
(* 0 (one byte per block index), `disk` is the content of blocks           *)
(* 1..total_blocks-1 byte by byte, and `persisted` is the table that the   *)
(* JSON text held in block 1 decodes to.                                   *)
(***************************************************************************)
EXTENDS Integers, Sequences, FiniteSets, TLC

\* ---------------------------------------------------------------- bounds
\* VirtualDisk.block_size, scaled down from 4096 bytes.
block_size == 2
\* VirtualDisk.total_blocks, scaled down from 256 blocks.
total_blocks == 5
\* Longest data a write_file call of the model passes.
MaxLen == 3
\* Largest offset a write_file call of the model passes.
MaxOffset == 4
\* Number of create_file/write_file/delete_file calls of one run.
MaxOps == 4

\* File names the calls of the model use: two short ones, and one that is
\* longer than a block is (a name of more than 4096 characters).
Names == {"a", "b", "L"}
LongNames == {"L"}
\* Byte values of file data (0 is the NUL byte the image is filled with).
Byte == {0, 1}
\* The data arguments of write_file: the byte strings of length 0..MaxLen
\* that repeat one byte.
DataSet == UNION {{[i \in 1..l |-> v] : v \in Byte} : l \in 0..MaxLen}
Offsets == 0..MaxOffset

\* The block numbers the device-level calls of the model pass: every block
\* of the image, and the two numbers next to the range (as the unit tests do).
BlockNumbers == (0 - 1)..total_blocks
\* The data arguments of device-level write_block calls: up to one byte
\* more than a block holds.
DevData == UNION {{[i \in 1..l |-> v] : v \in Byte} : l \in 0..(block_size + 1)}

\* A byte of the JSON text of the inode table (json_bytes).
JsonByte == 2
\* The None that get_free_block returns when no block is free.
NoBlock == -1

VARIABLES
    bitmap,     \* block 0 of the image: bitmap[n] for n in 0..total_blocks-1
    disk,       \* blocks 1..total_blocks-1 of the image, block_size bytes each
    persisted,  \* the inode table the JSON text in block 1 decodes to
    inodes,     \* FileSystem.inodes: name -> [size, blocks, created_time]
    ops         \* number of create_file/write_file/delete_file calls made,
                \* which is also the clock that time.time() reads

vars == <<bitmap, disk, persisted, inodes, ops>>

Min(a, b) == IF a < b THEN a ELSE b
Max(a, b) == IF a > b THEN a ELSE b
Zeros(n) == [i \in 1..n |-> 0]
Ones(n) == [i \in 1..n |-> 1]

\* ----------------------------------------------------------- VirtualDisk
\* read_block for a block held in `disk`: ok is FALSE when it raises
\* ValueError (index out of range).
read_block(dsk, block_number) ==
    IF ~(0 <= block_number /\ block_number < total_blocks)
    THEN [ok |-> FALSE, data |-> <<>>]
    ELSE [ok |-> TRUE, data |-> dsk[block_number]]

\* A slip write_block could have: short data is written as it is, without
\* the NUL padding up to the block size.
write_block_unpadded(dsk, block_number, data) ==
    IF ~(0 <= block_number /\ block_number < total_blocks)
    THEN [ok |-> FALSE, disk |-> dsk]
    ELSE IF Len(data) > block_size
    THEN [ok |-> FALSE, disk |-> dsk]
    ELSE [ok |-> TRUE, disk |-> [dsk EXCEPT ![block_number] = data]]

\* A slip write_block could have: the length of the data is not checked,
\* and the bytes beyond the block size land in the block that follows.
write_block_unchecked(dsk, block_number, data) ==
    IF ~(0 <= block_number /\ block_number < total_blocks)
    THEN [ok |-> FALSE, disk |-> dsk]
    ELSE [ok |-> TRUE,
          disk |-> [m \in DOMAIN dsk |->
                       IF m = block_number
                       THEN SubSeq(data \o Zeros(block_size - Len(data)), 1, block_size)
                       ELSE IF m = block_number + 1 /\ Len(data) > block_size
                       THEN SubSeq(data, block_size + 1, Len(data))
                                \o SubSeq(dsk[m], Len(data) - block_size + 1, block_size)
                       ELSE dsk[m]]]

\* write_block: ok is FALSE when it raises ValueError (index out of range,
\* or data longer than a block) and the image is then left as it was;
\* shorter data is padded with NUL bytes.
write_block(dsk, block_number, data) ==
    IF ~(0 <= block_number /\ block_number < total_blocks)
    THEN [ok |-> FALSE, disk |-> dsk]
    ELSE IF Len(data) > block_size
    THEN [ok |-> FALSE, disk |-> dsk]
    ELSE [ok |-> TRUE,
          disk |-> [dsk EXCEPT ![block_number] =
                        data \o Zeros(block_size - Len(data))]]

\* initializeBitmap: a zero bitmap with only block 0 marked.
initializeBitmap == [n \in 0..(total_blocks - 1) |-> IF n = 0 THEN 1 ELSE 0]

\* get_free_block: the first n in range(1, total_blocks) with bitmap[n] == 0.
get_free_block(bm) ==
    LET free == {n \in 1..(total_blocks - 1) : bm[n] = 0}
    IN  IF free = {} THEN NoBlock
        ELSE CHOOSE n \in free : \A m \in free : n <= m

mark_block_free(bm, block_number) == [bm EXCEPT ![block_number] = 0]

\* A slip mark_block_used could have: the bitmap is not written back.
mark_block_used_lost(bm, block_number) == bm

mark_block_used(bm, block_number) == [bm EXCEPT ![block_number] = 1]

is_block_used(bm, block_number) == bm[block_number] = 1

\* The device as one value: block 0 (the bitmap) and the blocks after it.
Device == [bitmap |-> bitmap, disk |-> disk]

\* Block 0 as the bytes read_block(0) returns: the bitmap, one byte per
\* block index, cut or NUL-extended to the block size.
bitmap_block(bm) ==
    [i \in 1..block_size |-> IF i - 1 < total_blocks THEN bm[i - 1] ELSE 0]

\* The bitmap that block 0 decodes to once it holds data and its padding.
block_bitmap(data) ==
    [n \in 0..(total_blocks - 1) |-> IF n < Len(data) THEN data[n + 1] ELSE 0]

\* VirtualDisk.read_block on any block number, block 0 included.
VirtualDisk_read_block(dev, block_number) ==
    IF block_number = 0
    THEN [ok |-> TRUE, data |-> bitmap_block(dev.bitmap)]
    ELSE read_block(dev.disk, block_number)

\* VirtualDisk.write_block on any block number, block 0 included.
VirtualDisk_write_block(dev, block_number, data) ==
    LET w == write_block([n \in 0..(total_blocks - 1) |->
                             IF n = 0 THEN bitmap_block(dev.bitmap) ELSE dev.disk[n]],
                         block_number, data)
    IN  [ok |-> w.ok,
         dev |-> [bitmap |-> IF w.ok /\ block_number = 0
                             THEN block_bitmap(w.disk[0]) ELSE dev.bitmap,
                  disk |-> [n \in 1..(total_blocks - 1) |-> w.disk[n]]]]

\* ----------------------------------------------------------------- Inode
Inode(t) == [size |-> 0, blocks |-> <<>>, created_time |-> t]

EmptyTable == [n \in {} |-> Inode(1)]

\* ------------------------------------------------------------ FileSystem
\* The engine's state as one value: the image and the in-memory table.
State == [bitmap |-> bitmap, disk |-> disk, persisted |-> persisted,
          inodes |-> inodes]

\* json.dumps(inode_dict).encode(): the text is kept as JsonByte marks. It
\* holds every name twice, so it is longer than a block as soon as the
\* table holds a long name; with short names only it fits.
json_bytes(ino) ==
    IF (DOMAIN ino) \cap LongNames = {}
    THEN [i \in 1..block_size |-> JsonByte]
    ELSE [i \in 1..(block_size + 1) |-> JsonByte]

\* save_inode_table: write the JSON text to block 1, then mark block 1 used.
\* ok is FALSE when write_block raises ValueError; block 1 and the bitmap
\* are then left as they were.
save_inode_table(st) ==
    LET w == write_block(st.disk, 1, json_bytes(st.inodes))
    IN  IF ~w.ok
        THEN [ok |-> FALSE, st |-> st]
        ELSE [ok |-> TRUE,
              st |-> [st EXCEPT !.disk = w.disk,
                                !.persisted = st.inodes,
                                !.bitmap = mark_block_used(st.bitmap, 1)]]

\* Inode.from_dict on an entry of the decoded table.
from_dict(data) ==
    [size |-> data.size, blocks |-> data.blocks, created_time |-> data.created_time]

\* load_inode_table, called with an empty in-memory table: block 1 is read
\* and stripped of trailing NUL bytes; an empty text leaves the table empty,
\* a JSON text is decoded into the table, and anything else raises inside
\* the try block, upon which the (empty) table is saved.
load_inode_table(st) ==
    LET data == read_block(st.disk, 1).data
    IN  IF data = Zeros(block_size)
        THEN st
        ELSE IF data = [i \in 1..block_size |-> JsonByte]
        THEN [st EXCEPT !.inodes =
                  [name \in DOMAIN st.persisted |-> from_dict(st.persisted[name])]]
        ELSE save_inode_table(st).st

\* FileSystem(disk_path) on an image that exists: VirtualDisk.__init__
\* keeps the image file and calls initializeBitmap, then the engine starts
\* from an empty table and calls load_inode_table.
FileSystem_init(st) ==
    load_inode_table([st EXCEPT !.bitmap = initializeBitmap, !.inodes = EmptyTable])

\* self.inodes[name] = inode
put_inode(ino, name, inode) ==
    [n \in (DOMAIN ino) \cup {name} |-> IF n = name THEN inode ELSE ino[n]]

\* del self.inodes[name]
del_inode(ino, name) == [n \in (DOMAIN ino) \ {name} |-> ino[n]]

\* create_file(name), with t the value of time.time().
create_file(st, name, t) ==
    IF name \in DOMAIN st.inodes
    THEN [st |-> st, val |-> "False"]
    ELSE LET s == save_inode_table(
                      [st EXCEPT !.inodes = put_inode(st.inodes, name, Inode(t))])
         IN  [st |-> s.st, val |-> IF s.ok THEN "True" ELSE "ValueError"]

\* A slip read_file could have: whole blocks are returned, padding included.
RECURSIVE read_loop_padded(_, _, _, _, _)
read_loop_padded(dsk, blocks, i, size, data) ==
    IF i > Len(blocks) THEN data
    ELSE read_loop_padded(dsk, blocks, i + 1, size,
                          data \o read_block(dsk, blocks[i]).data)

\* The loop of read_file over inode.blocks, from the i-th block on.
RECURSIVE read_loop(_, _, _, _, _)
read_loop(dsk, blocks, i, size, data) ==
    IF i > Len(blocks) THEN data
    ELSE LET block_data == read_block(dsk, blocks[i]).data
         IN  IF Len(data) + block_size > size
             THEN LET remaining == size - Len(data)
                  IN  read_loop(dsk, blocks, i + 1, size,
                                data \o SubSeq(block_data, 1, remaining))
             ELSE read_loop(dsk, blocks, i + 1, size, data \o block_data)

\* read_file(name): val is "None" for an absent name, else "bytes".
read_file(st, name) ==
    IF name \notin DOMAIN st.inodes
    THEN [val |-> "None", bytes |-> <<>>]
    ELSE LET inode == st.inodes[name]
         IN  IF inode.blocks = <<>>
             THEN [val |-> "bytes", bytes |-> <<>>]
             ELSE [val |-> "bytes",
                   bytes |-> read_loop(st.disk, inode.blocks, 1, inode.size, <<>>)]

\* The loop of delete_file: mark_block_free for each block of the list.
RECURSIVE free_blocks(_, _, _)
free_blocks(bm, blocks, i) ==
    IF i > Len(blocks) THEN bm
    ELSE free_blocks(mark_block_free(bm, blocks[i]), blocks, i + 1)

\* delete_file(name)
delete_file(st, name) ==
    IF name \notin DOMAIN st.inodes
    THEN [st |-> st, val |-> "False"]
    ELSE LET inode == st.inodes[name]
             s == save_inode_table(
                      [st EXCEPT !.bitmap = free_blocks(st.bitmap, inode.blocks, 1),
                                 !.inodes = del_inode(st.inodes, name)])
         IN  [st |-> s.st, val |-> IF s.ok THEN "True" ELSE "ValueError"]

\* _calculate_blocks_needed: set(range(start_block, end_block + 1)).
calculate_blocks_needed(offset, data_length) ==
    LET start_block == offset \div block_size
        end_block == (offset + data_length + block_size - 1) \div block_size
    IN  start_block..end_block

\* _allocate_new_block: get_free_block, and when that is None the raise of
\* DiskFullError, a name the module never defines (a NameError).
allocate_new_block(bm) ==
    LET block == get_free_block(bm)
    IN  IF block = NoBlock
        THEN [raised |-> TRUE, block |-> NoBlock]
        ELSE [raised |-> FALSE, block |-> block]

\* {i: block for i, block in enumerate(inode.blocks)}
enumerate_blocks(blocks) == [i \in 0..(Len(blocks) - 1) |-> blocks[i + 1]]

\* The loop of _ensure_blocks_allocated over blocks_needed, taken in
\* ascending order from logical_block up to last. The order in which a
\* Python set yields its members only decides which of the new blocks backs
\* which logical block: every order takes the same lowest free blocks.
RECURSIVE allocate_missing(_, _, _, _)
allocate_missing(bm, block_mapping, logical_block, last) ==
    IF logical_block > last
    THEN [raised |-> FALSE, bitmap |-> bm, block_mapping |-> block_mapping]
    ELSE IF logical_block \in DOMAIN block_mapping
    THEN allocate_missing(bm, block_mapping, logical_block + 1, last)
    ELSE LET new_block == allocate_new_block(bm)
         IN  IF new_block.raised
             THEN [raised |-> TRUE, bitmap |-> bm, block_mapping |-> block_mapping]
             ELSE allocate_missing(
                      mark_block_used(bm, new_block.block),
                      [l \in (DOMAIN block_mapping) \cup {logical_block} |->
                           IF l = logical_block THEN new_block.block
                           ELSE block_mapping[l]],
                      logical_block + 1, last)

\* _ensure_blocks_allocated(inode, blocks_needed), on bitmap bm.
ensure_blocks_allocated(bm, inode, blocks_needed) ==
    IF blocks_needed = {}
    THEN [raised |-> FALSE, bitmap |-> bm,
          block_mapping |-> enumerate_blocks(inode.blocks)]
    ELSE allocate_missing(bm, enumerate_blocks(inode.blocks),
                          CHOOSE l \in blocks_needed : \A m \in blocks_needed : l <= m,
                          CHOOSE l \in blocks_needed : \A m \in blocks_needed : l >= m)

\* The while loop of _write_data_to_blocks: one read-modify-write per block.
RECURSIVE write_loop(_, _, _, _, _)
write_loop(dsk, data, data_offset, current_offset, block_mapping) ==
    IF ~(data_offset < Len(data)) THEN dsk
    ELSE LET logical_block == current_offset \div block_size
             block_offset == current_offset % block_size
         IN  IF logical_block \notin DOMAIN block_mapping THEN dsk
             ELSE LET physical_block == block_mapping[logical_block]
                      current_block == read_block(dsk, physical_block).data
                      space_in_block == block_size - block_offset
                      data_remaining == Len(data) - data_offset
                      bytes_to_write == Min(space_in_block, data_remaining)
                      new_block ==
                          [i \in 1..block_size |->
                              IF block_offset < i /\ i <= block_offset + bytes_to_write
                              THEN data[data_offset + i - block_offset]
                              ELSE current_block[i]]
                  IN  write_loop(write_block(dsk, physical_block, new_block).disk,
                                 data, data_offset + bytes_to_write,
                                 current_offset + bytes_to_write, block_mapping)

\* _write_data_to_blocks(data, offset, block_mapping)
write_data_to_blocks(dsk, data, offset, block_mapping) ==
    write_loop(dsk, data, 0, offset, block_mapping)

\* [block_mapping[i] for i in sorted(block_mapping.keys())]
RECURSIVE sorted_values(_, _)
sorted_values(block_mapping, keys) ==
    IF keys = {} THEN <<>>
    ELSE LET k == CHOOSE x \in keys : \A y \in keys : x <= y
         IN  <<block_mapping[k]>> \o sorted_values(block_mapping, keys \ {k})

\* A slip _update_inode could have: the size is set to the end of this write
\* instead of the larger of that and the old size.
update_inode_end_of_write(st, name, inode, offset, data_length, block_mapping) ==
    LET updated == [inode EXCEPT
                       !.blocks = sorted_values(block_mapping, DOMAIN block_mapping),
                       !.size = offset + data_length]
    IN  save_inode_table([st EXCEPT !.inodes = put_inode(st.inodes, name, updated)])

\* _update_inode: the new block list and size, set on the inode object the
\* table holds under name, then save_inode_table.
update_inode(st, name, inode, offset, data_length, block_mapping) ==
    LET updated == [inode EXCEPT
                       !.blocks = sorted_values(block_mapping, DOMAIN block_mapping),
                       !.size = Max(inode.size, offset + data_length)]
    IN  save_inode_table([st EXCEPT !.inodes = put_inode(st.inodes, name, updated)])

\* A slip get_inode could have: a missing name yields a new inode instead
\* of FileNotFoundError (create on write).
get_inode_or_new(ino, name) ==
    IF name \notin DOMAIN ino
    THEN [found |-> TRUE, inode |-> Inode(0)]
    ELSE [found |-> TRUE, inode |-> ino[name]]

\* _get_inode: found is FALSE when it raises FileNotFoundError.
get_inode(ino, name) ==
    IF name \notin DOMAIN ino
    THEN [found |-> FALSE, inode |-> Inode(0)]
    ELSE [found |-> TRUE, inode |-> ino[name]]

\* A slip write_file could have: running out of blocks is not noticed, and
\* the write goes on with the blocks it got.
write_file_partial(st, name, data, offset) ==
    IF ~get_inode(st.inodes, name).found
    THEN [st |-> st, val |-> "False"]
    ELSE LET inode == get_inode(st.inodes, name).inode
             blocks_needed == calculate_blocks_needed(offset, Len(data))
             alloc == ensure_blocks_allocated(st.bitmap, inode, blocks_needed)
             written == [st EXCEPT
                 !.bitmap = alloc.bitmap,
                 !.disk = write_data_to_blocks(st.disk, data, offset,
                                               alloc.block_mapping)]
             s == update_inode(written, name, inode, offset, Len(data),
                               alloc.block_mapping)
         IN  [st |-> s.st,
              val |-> IF alloc.raised THEN "NameError"
                      ELSE IF s.ok THEN "True" ELSE "ValueError"]

\* write_file(name, data, offset): only FileNotFoundError is caught; the
\* NameError of a full disk and the ValueError of an oversized table leave
\* the call as exceptions.
write_file(st, name, data, offset) ==
    IF ~get_inode(st.inodes, name).found
    THEN [st |-> st, val |-> "False"]
    ELSE LET inode == get_inode(st.inodes, name).inode
             blocks_needed == calculate_blocks_needed(offset, Len(data))
             alloc == ensure_blocks_allocated(st.bitmap, inode, blocks_needed)
         IN  IF alloc.raised
             THEN [st |-> [st EXCEPT !.bitmap = alloc.bitmap], val |-> "NameError"]
             ELSE LET written == [st EXCEPT
                          !.bitmap = alloc.bitmap,
                          !.disk = write_data_to_blocks(st.disk, data, offset,
                                                        alloc.block_mapping)]
                      s == update_inode(written, name, inode, offset, Len(data),
                                        alloc.block_mapping)
                  IN  [st |-> s.st, val |-> IF s.ok THEN "True" ELSE "ValueError"]

\* ----------------------------------------------------------------- steps
\* FileSystem(disk_path) on a path that does not exist yet: the image is
\* created NUL-filled, the bitmap is initialized, and load_inode_table
\* finds block 1 empty and leaves the table empty without saving it.
Init ==
    /\ bitmap = initializeBitmap
    /\ disk = [n \in 1..(total_blocks - 1) |-> Zeros(block_size)]
    /\ persisted = EmptyTable
    /\ inodes = EmptyTable
    /\ ops = 0

Install(st) ==
    /\ bitmap' = st.bitmap
    /\ disk' = st.disk
    /\ persisted' = st.persisted
    /\ inodes' = st.inodes
    /\ ops' = ops + 1

CreateFile ==
    /\ ops < MaxOps
    /\ \E name \in Names : Install(create_file(State, name, ops + 1).st)

WriteFile ==
    /\ ops < MaxOps
    /\ \E name \in Names, data \in DataSet, offset \in Offsets :
           Install(write_file(State, name, data, offset).st)

DeleteFile ==
    /\ ops < MaxOps
    /\ \E name \in Names : Install(delete_file(State, name).st)

Next == CreateFile \/ WriteFile \/ DeleteFile

Spec == Init /\ [][Next]_vars

\* ------------------------------------------------- writes to created files
\* The engine right after FileSystem(disk_path) on a new path (as Init).
NewImage ==
    [bitmap |-> initializeBitmap,
     disk |-> [n \in 1..(total_blocks - 1) |-> Zeros(block_size)],
     persisted |-> EmptyTable,
     inodes |-> EmptyTable]

\* The engine after create_file("a") and create_file("b") on a new image,
\* and after a third create_file, of the long name, which raises ValueError.
TwoFiles == create_file(create_file(NewImage, "a", 1).st, "b", 2).st
ThreeFiles == create_file(TwoFiles, "L", 3).st

InitAt(st, calls) ==
    /\ bitmap = st.bitmap
    /\ disk = st.disk
    /\ persisted = st.persisted
    /\ inodes = st.inodes
    /\ ops = calls

\* The files have been created; from here on only write_file is called.
InitWrites == InitAt(TwoFiles, 2) \/ InitAt(ThreeFiles, 3)

NextWrites == WriteFile

SpecWrites == InitWrites /\ [][NextWrites]_vars

\* --------------------------------------------------- engine with restarts
\* The engine object is dropped and a new FileSystem is constructed over
\* the same image. No time passes on the call counter.
Restart ==
    LET st == FileSystem_init(State)
    IN  /\ bitmap' = st.bitmap
        /\ disk' = st.disk
        /\ persisted' = st.persisted
        /\ inodes' = st.inodes
        /\ ops' = ops

NextRestart == CreateFile \/ WriteFile \/ DeleteFile \/ Restart

SpecRestart == Init /\ [][NextRestart]_vars

\* ------------------------------------------------------ the device alone
\* VirtualDisk(disk_path) on a path that does not exist yet, used without
\* an engine on top (as VirtualDiskTest does): the image is created
\* NUL-filled and the bitmap is initialized. No inode table is involved.
InitDevice ==
    /\ bitmap = initializeBitmap
    /\ disk = [n \in 1..(total_blocks - 1) |-> Zeros(block_size)]
    /\ persisted = EmptyTable
    /\ inodes = EmptyTable
    /\ ops = 0

\* disk.write_block(block_number, data), whether it returns or raises.
DevWriteBlock ==
    \E block_number \in BlockNumbers, data \in DevData :
        LET w == VirtualDisk_write_block(Device, block_number, data)
        IN  /\ bitmap' = w.dev.bitmap
            /\ disk' = w.dev.disk
            /\ UNCHANGED <<persisted, inodes, ops>>

NextDevice == DevWriteBlock

SpecDevice == InitDevice /\ [][NextDevice]_vars

\* ---------------------------------------------------------------- claims
\* Every state TLC reaches is a state in which the engine accepts its next
\* call, so a statement about one call is stated over the reachable states
\* and every argument the call can take there.

Existing == DOMAIN inodes
Fresh(name) == inodes[name].size = 0 /\ inodes[name].blocks = <<>>
Content(st, name) == read_file(st, name).bytes
BlockSet(inode) == {inode.blocks[i] : i \in 1..Len(inode.blocks)}

\* C[0:offset] + D + C[offset+len(D):]
Splice(C, D, offset) ==
    SubSeq(C, 1, offset) \o D \o SubSeq(C, offset + Len(D) + 1, Len(C))

\* C1: a first write_file of bytes D at offset 0 to a freshly created file,
\* when it returns true, makes read_file of that file return exactly D.
C1_RoundTrip ==
    \A name \in Existing, data \in DataSet :
        LET r == write_file(State, name, data, 0)
        IN  (Fresh(name) /\ r.val = "True")
                => read_file(r.st, name) = [val |-> "bytes", bytes |-> data]

\* C1 witness: a fresh file takes a write of more than one block, and the
\* read returns those bytes.
C1_Witness ==
    \E name \in Existing, data \in DataSet :
        LET r == write_file(State, name, data, 0)
        IN  /\ Fresh(name) /\ r.val = "True" /\ Len(data) > block_size
            /\ Content(r.st, name) = data

\* C2: when a file reads as C and write_file(name, D, offset) returns true
\* with offset <= len(C), the file then reads as C with D spliced in at offset.
C2_Splice ==
    \A name \in Existing, data \in DataSet, offset \in Offsets :
        LET C == Content(State, name)
            r == write_file(State, name, data, offset)
        IN  (r.val = "True" /\ offset <= Len(C))
                => Content(r.st, name) = Splice(C, data, offset)

\* C3: no physical block index is in the block lists of two inodes, nor
\* twice in the block list of one inode.
C3_Disjoint ==
    /\ \A n1 \in Existing, n2 \in Existing :
           n1 # n2 => BlockSet(inodes[n1]) \cap BlockSet(inodes[n2]) = {}
    /\ \A name \in Existing :
           Cardinality(BlockSet(inodes[name])) = Len(inodes[name].blocks)

\* C3 witness: two files hold blocks at the same time, one of them two.
C3_Witness ==
    \E n1 \in Existing, n2 \in Existing :
        /\ n1 # n2
        /\ Len(inodes[n1].blocks) >= 2
        /\ Len(inodes[n2].blocks) >= 1

\* The block indices is_block_used reports as used.
UsedBlocks(bm) == {n \in 0..(total_blocks - 1) : is_block_used(bm, n)}

\* C4: the blocks marked used are exactly the blocks of all inodes' block
\* lists plus the reserved blocks 0 and 1.
C4_BitmapAgrees ==
    UsedBlocks(bitmap) = {0, 1} \cup UNION {BlockSet(inodes[name]) : name \in Existing}

\* C5: write_file on an existing file that needs a block when the allocator
\* has none returns false, and no exception leaves the call.
C5_DiskFullReported ==
    \A name \in Existing, data \in DataSet, offset \in Offsets :
        ensure_blocks_allocated(bitmap, inodes[name],
                                calculate_blocks_needed(offset, Len(data))).raised
            => write_file(State, name, data, offset).val = "False"

\* C6: for a name that is not in the table, read_file returns None,
\* delete_file and write_file return false, and the image and the in-memory
\* table stay as they were.
C6_NotFound ==
    \A name \in Names \ Existing :
        /\ read_file(State, name).val = "None"
        /\ delete_file(State, name) = [st |-> State, val |-> "False"]
        /\ \A data \in DataSet, offset \in Offsets :
               write_file(State, name, data, offset) = [st |-> State, val |-> "False"]

\* C6 witness: a name is absent while another file holds data blocks, so
\* the calls on the absent name meet an image they could change.
C6_Witness ==
    /\ Names \ Existing # {}
    /\ \E other \in Existing : inodes[other].size > 0
    /\ \A name \in Names \ Existing :
           write_file(State, name, <<1, 1, 1>>, 0).val = "False"

\* C7: after delete_file(name) returns true, name is absent, every block of
\* its former block list is reported unused, and get_free_block returns a
\* block no greater than the lowest of them.
C7_DeleteFrees ==
    \A name \in Existing :
        LET r == delete_file(State, name)
            freed == BlockSet(inodes[name])
        IN  r.val = "True" =>
                /\ name \notin DOMAIN r.st.inodes
                /\ \A b \in freed : ~is_block_used(r.st.bitmap, b)
                /\ \A b \in freed :
                       /\ get_free_block(r.st.bitmap) # NoBlock
                       /\ get_free_block(r.st.bitmap) <= b

\* C8: bitmap[0] = 1 and bitmap[1] = 1 in every state from construction on.
C8_ReservedMarked == is_block_used(bitmap, 0) /\ is_block_used(bitmap, 1)

\* C9: for every existing file, read_file returns exactly inode.size bytes.
C9_ReadLength ==
    \A name \in Existing : Len(Content(State, name)) = inodes[name].size

\* C10: create_file on an existing name returns false and leaves its inode
\* (and everything else) as it was; on an absent name it returns true and
\* yields an inode of size 0 with an empty block list.
C10_Create ==
    \A name \in Names :
        LET r == create_file(State, name, ops + 1)
        IN  IF name \in Existing
            THEN r = [st |-> State, val |-> "False"]
            ELSE /\ r.val = "True"
                 /\ name \in DOMAIN r.st.inodes
                 /\ r.st.inodes[name].size = 0
                 /\ r.st.inodes[name].blocks = <<>>

\* C11: a write_file call on an existing file, whatever its data, offset and
\* outcome, leaves the file in the table with a size no smaller than before;
\* when it returns true the size is max(old size, offset + len(data)).
C11_SizeMonotone ==
    \A name \in Existing, data \in DataSet, offset \in Offsets :
        LET r == write_file(State, name, data, offset)
        IN  /\ name \in DOMAIN r.st.inodes
            /\ r.st.inodes[name].size >= inodes[name].size
            /\ r.val = "True" =>
                   r.st.inodes[name].size = Max(inodes[name].size, offset + Len(data))

\* C11 witness: a file of some size takes a successful write that ends
\* before its end, and a failed one, and keeps its size in both.
C11_Witness ==
    \E name \in Existing :
        /\ inodes[name].size > 1
        /\ LET r == write_file(State, name, <<1>>, 0)
           IN  r.val = "True" /\ r.st.inodes[name].size = inodes[name].size
        /\ \E data \in DataSet, offset \in Offsets :
               LET r == write_file(State, name, data, offset)
               IN  r.val = "NameError" /\ r.st.inodes[name].size = inodes[name].size

\* C12: a write_block(n, data) that succeeds with len(data) <= block_size
\* makes block n read as data followed by NUL bytes up to the block size,
\* and leaves every other block of the image, block 0 included, as it was.
C12_WriteOneBlock ==
    \A n \in BlockNumbers, data \in DevData :
        LET w == VirtualDisk_write_block(Device, n, data)
        IN  (w.ok /\ Len(data) <= block_size) =>
                /\ VirtualDisk_read_block(w.dev, n) =
                       [ok |-> TRUE, data |-> data \o Zeros(block_size - Len(data))]
                /\ \A m \in 1..(total_blocks - 1) \ {n} : w.dev.disk[m] = disk[m]
                /\ n # 0 => w.dev.bitmap = bitmap

\* C12 witness: the blocks around block 2 hold data, and a one-byte write
\* to block 2 succeeds and is read back padded.
C12_Witness ==
    /\ disk[1] = Ones(block_size) /\ disk[3] = Ones(block_size) /\ bitmap[1] = 1
    /\ LET w == VirtualDisk_write_block(Device, 2, <<1>>)
       IN  /\ w.ok
           /\ VirtualDisk_read_block(w.dev, 2).data = <<1>> \o Zeros(block_size - 1)
           /\ w.dev.disk[1] = Ones(block_size) /\ w.dev.disk[3] = Ones(block_size)

C14_BlocksCoverSize ==
    \A name \in Existing, data \in DataSet, offset \in Offsets :
        LET r == write_file(State, name, data, offset)
            alloc == ensure_blocks_allocated(bitmap, inodes[name],
                         calculate_blocks_needed(offset, Len(data)))
        IN  r.val = "True" =>
                LET inode == r.st.inodes[name]
                IN  /\ (inode.size + block_size - 1) \div block_size <= Len(inode.blocks)
                    /\ DOMAIN alloc.block_mapping = 0..(Len(inode.blocks) - 1)

\* C15: between any two calls of the engine, the table that block 1 decodes
\* to (as load_inode_table decodes it) is the in-memory table.
C15_PersistedTracks ==
    load_inode_table([State EXCEPT !.inodes = EmptyTable]).inodes = inodes

\* C16: constructing an engine over the image of a previous engine leaves
\* every block that was marked used marked used.
C16_RestartKeepsBitmap ==
    \A n \in 0..(total_blocks - 1) :
        is_block_used(bitmap, n) => is_block_used(FileSystem_init(State).bitmap, n)

\* C17: write_file gives a new physical block only to logical blocks from
\* offset div block_size up to, but not including, ceil((offset + len(data))
\* / block_size); so a first write of L bytes at offset 0 to a fresh file,
\* when it returns true, leaves ceil(L / block_size) blocks in the list and
\* that many more blocks marked used.
C17_AllocationTouched ==
    \A name \in Existing, data \in DataSet, offset \in Offsets :
        LET alloc == ensure_blocks_allocated(bitmap, inodes[name],
                         calculate_blocks_needed(offset, Len(data)))
            touched == (offset \div block_size)..
                           (((offset + Len(data) + block_size - 1) \div block_size) - 1)
            r == write_file(State, name, data, offset)
            ceil_L == (Len(data) + block_size - 1) \div block_size
        IN  /\ ~alloc.raised =>
                   (DOMAIN alloc.block_mapping) \ (DOMAIN enumerate_blocks(inodes[name].blocks))
                       \subseteq touched
            /\ (Fresh(name) /\ offset = 0 /\ r.val = "True") =>
                   /\ Len(r.st.inodes[name].blocks) = ceil_L
                   /\ Cardinality(UsedBlocks(r.st.bitmap) \ UsedBlocks(bitmap)) = ceil_L

\* C18: a write_file call that runs out of free blocks leaves the in-memory
\* table (the target's size and block list with it), the persisted table and
\* block 1, and what read_file returns for every file as they were.
C18_FailedWriteKeepsFiles ==
    \A name \in Existing, data \in DataSet, offset \in Offsets :
        LET r == write_file(State, name, data, offset)
        IN  r.val = "NameError" =>
                /\ r.st.inodes = inodes
                /\ r.st.persisted = persisted
                /\ r.st.disk[1] = disk[1]
                /\ \A f \in Names : read_file(r.st, f) = read_file(State, f)

\* C18 witness: two files hold data, and a write to one of them takes a
\* free block and then runs out, with both files reading as before.
C18_Witness ==
    \E name \in Existing, other \in Existing, data \in DataSet, offset \in Offsets :
        LET r == write_file(State, name, data, offset)
        IN  /\ name # other
            /\ inodes[name].size > 0 /\ inodes[other].size > 0
            /\ r.val = "NameError"
            /\ r.st.bitmap # bitmap
            /\ Content(r.st, name) = Content(State, name)
            /\ Content(r.st, other) = Content(State, other)

\* C19: read_file returns only bytes that some write_file put into the
\* current incarnation of the file, or NUL bytes: after a first write to a
\* freshly created file that returns true, at any offset, every byte the
\* file reads as is a byte of that write's data or 0.
C19_NoStaleData ==
    \A name \in Existing, data \in DataSet, offset \in Offsets :
        LET r == write_file(State, name, data, offset)
            C == Content(r.st, name)
        IN  (Fresh(name) /\ r.val = "True") =>
                \A i \in 1..Len(C) :
                    C[i] = 0 \/ \E j \in 1..Len(data) : data[j] = C[i]

\* C20: for two distinct existing files a and b, a create_file, write_file
\* or delete_file call on a, whatever its outcome, leaves the size and block
\* list of b and what read_file returns for b as they were.
C20_OtherFilesKept ==
    \A a \in Existing, b \in Existing :
        LET Kept(r) == /\ b \in DOMAIN r.st.inodes
                       /\ r.st.inodes[b].size = inodes[b].size
                       /\ r.st.inodes[b].blocks = inodes[b].blocks
                       /\ read_file(r.st, b) = read_file(State, b)
        IN  a # b =>
                /\ Kept(create_file(State, a, ops + 1))
                /\ Kept(delete_file(State, a))
                /\ \A data \in DataSet, offset \in Offsets :
                       Kept(write_file(State, a, data, offset))

\* C21: in every state, also after an engine was constructed over the image
\* of a previous one, no inode's block list holds block 0 or block 1.
C21_ReservedNotAllocated ==
    \A name \in Existing : BlockSet(inodes[name]) \cap {0, 1} = {}

====
